---- MODULE Spec2Model ----
(***************************************************************************)
(* A model of nilmtk/datastore.py: the windowed, chunked, look-ahead       *)
(* enriched read of HDFDataStore.load, the memory estimator and guard,     *)
(* the Key value type, join_key, the metadata of the store's nodes, the    *)
(* column check, the row count, and close() and open().                    *)
(*                                                                         *)
(* A table is the sequence of the index values of its rows in on-disk      *)
(* order; a row is [pos, index], pos being its 1-based on-disk position    *)
(* (pandas counts from 0).  A DataFrame is a sequence of rows.  A Python    *)
(* value that may be None is a sequence of length 0 (None) or 1.           *)
(***************************************************************************)
EXTENDS Integers, Sequences, FiniteSets, TLC

\* ------------------------------------------------------------------ bounds
MaxTime == 3
MaxRows == 3
MaxPeriods == 2
MaxLookAhead == 2
MaxChunkSize == 2
MaxCols == 2
MaxSuffix == 2
MaxKeyNum == 12
MaxArgs == 3
MaxSlashes == 1
MaxObjects == 6
MaxHeld == 1
MaxVal == 1
MaxCalls == 6

\* -------------------------------------------------------- program constants
MAX_MEM_ALLOWANCE_IN_BYTES == 1000000000
BYTES_PER_ELEMENT == 4
BYTES_PER_TIMESTAMP == 8
DEFAULT_CHUNKSIZE == 1000000

VARIABLES
    table,      \* the table stored under the key: its rows' index values, on-disk order
    window,     \* DataStore.window
    byCoords,   \* which pandas TableIterator the store runs (see Select)
    pc,         \* position of the load() generator
    arg_periods,\* load(): the periods argument as the caller gave it
    periods,    \* load(): the periods iterated over (after line 95)
    n_look_ahead_rows,
    chunksize,
    pi,         \* number of periods the outer for loop has taken
    generator,  \* load(): the groups the current period's generator still holds
    out,        \* the chunks yielded so far, in yield order
    reads       \* the store reads made so far, each tagged with its period

VARIABLES
    stored,     \* whether the key is among store.keys()
    col_names,  \* the column names of the table stored under the key
    mem         \* the last call of the memory estimator or guard, and how it ended

memVars == <<stored, col_names, mem>>

VARIABLES
    key,        \* the last Key(...) call: its arguments, and the Key made or the error
    rendered    \* the last repr(key): the Key it was called on, and the string

keyVars == <<key, rendered>>

VARIABLES
    joined      \* the last join_key(*args) call: its arguments and the string returned

joinVars == <<joined>>

VARIABLES
    heap,       \* the Python dicts alive: object id -> [val, child], Free when there is none
    attrs,      \* node._v_attrs.metadata of each node: the id of the dict it refers to
    disk,       \* the metadata of each node as save_metadata last wrote it to the file
    held,       \* the ids of the metadata dicts the caller holds
    returned,   \* those of them that load_metadata returned
    saved,      \* those of them that the caller has passed to save_metadata
    mutated     \* (history) those of them that the caller has changed

metaVars == <<heap, attrs, disk, held, returned, saved, mutated>>

VARIABLES
    checked     \* the last _check_columns call: its argument, how it ended, the store calls made

colsVars == <<checked>>

VARIABLES
    count       \* the last _nrows call: its timeframe argument and the number returned

countVars == <<count>>

VARIABLES
    is_open,    \* self.store.is_open: whether the pandas HDFStore handle is open
    calls       \* (history) the open() and close() calls made on the reader, in order

handleVars == <<is_open, calls>>

VARIABLES
    bulk        \* a load() of a whole table too large to list: the rows counted only

bulkVars == <<bulk>>

\* What load, the memory estimator and Key all leave alone
restVars == <<joinVars, metaVars, colsVars, countVars, handleVars, bulkVars>>

\* What HDFDataStore.load and the store's rows leave alone
notLoadVars == <<memVars, keyVars, restVars>>

loadVars == <<table, window, byCoords, pc, arg_periods, periods, n_look_ahead_rows, chunksize,
              pi, generator, out, reads>>

vars == <<loadVars, memVars, keyVars, restVars>>

\* ------------------------------------------------------------ Python values
None == <<>>

Some(x) == <<x>>

Min(a, b) == IF a <= b THEN a ELSE b

Max(a, b) == IF a >= b THEN a ELSE b

SetMinOf(S) == CHOOSE x \in S : \A y \in S : x <= y

Time == 1..MaxTime

OptTime == {None} \cup {Some(t) : t \in Time}

\* ---------------------------------------------------------------- TimeFrame
\* nilmtk.timeframe is imported, not part of datastore.py: a half-open interval
\* [start, end), either end possibly None (unbounded), or the empty interval.

\* TimeFrame(start, end); TimeFrame() is TimeFrame(None, None), the whole range
TimeFrame(start, end) == [start |-> start, end |-> end, empty |-> FALSE]

EmptyTimeFrame == [start |-> None, end |-> None, empty |-> TRUE]

\* TimeFrame.intersect
Intersect(self, other) ==
    IF self.empty \/ other.empty THEN EmptyTimeFrame
    ELSE LET start == IF other.start = None THEN self.start
                      ELSE IF self.start = None THEN other.start
                      ELSE Some(Max(self.start[1], other.start[1]))
             end   == IF other.end = None THEN self.end
                      ELSE IF self.end = None THEN other.end
                      ELSE Some(Min(self.end[1], other.end[1]))
         IN IF start # None /\ end # None /\ start[1] >= end[1]
            THEN EmptyTimeFrame
            ELSE TimeFrame(start, end)

\* TimeFrame.query_terms, as a predicate on a row's index: index >= start, index < end
QueryTerms(tf, index) ==
    /\ (tf.start = None \/ index >= tf.start[1])
    /\ (tf.end = None \/ index < tf.end[1])

TimeFrames ==
    {tf \in [start : OptTime, end : OptTime, empty : {FALSE}] :
        tf.start = None \/ tf.end = None \/ tf.start[1] < tf.end[1]}
    \cup {EmptyTimeFrame}

\* ------------------------------------------------------------ the HDF store
IsSorted(s) == \A i \in 1..(Len(s) - 1) : s[i] <= s[i + 1]

TableRows(tbl) == [p \in 1..Len(tbl) |-> [pos |-> p, index |-> tbl[p]]]

RECURSIVE SplitChunks(_, _)
\* TableIterator over the coordinates of the matching rows (pandas >= 0.15)
SplitChunks(rows, size) ==
    IF rows = <<>> THEN <<>>
    ELSE <<SubSeq(rows, 1, Min(size, Len(rows)))>>
         \o SplitChunks(SubSeq(rows, size + 1, Len(rows)), size)

RECURSIVE RangeChunks(_, _, _, _)
\* TableIterator over row ranges of the table, the where clause applied inside each
\* range and a range with no matching row skipped (pandas < 0.15)
RangeChunks(tbl, tf, size, current) ==
    IF current >= Len(tbl) THEN <<>>
    ELSE LET stop == current + size
             v == SelectSeq(SubSeq(TableRows(tbl), current + 1, Min(stop, Len(tbl))),
                            LAMBDA r : QueryTerms(tf, r.index))
         IN (IF v = <<>> THEN <<>> ELSE <<v>>) \o RangeChunks(tbl, tf, size, stop)

Select_LastGroupFirst(tbl, tf, size, coords) ==
    LET groups ==
            IF coords
            THEN SplitChunks(SelectSeq(TableRows(tbl), LAMBDA r : QueryTerms(tf, r.index)),
                             size)
            ELSE RangeChunks(tbl, tf, size, 0)
    IN [g \in 1..Len(groups) |-> groups[Len(groups) + 1 - g]]

\* store.select(key, where=terms, chunksize=chunksize).__iter__(): the non-empty
\* groups of at most chunksize matching rows, in on-disk order
Select(tbl, tf, size, coords) ==
    IF coords
    THEN SplitChunks(SelectSeq(TableRows(tbl), LAMBDA r : QueryTerms(tf, r.index)), size)
    ELSE RangeChunks(tbl, tf, size, 0)

\* store.select_as_coordinates(key, where="index>x"): the positions of the rows
\* whose index is greater than x, ascending
SelectAsCoordinates(tbl, x) ==
    SelectSeq([p \in 1..Len(tbl) |-> p], LAMBDA p : tbl[p] > x)

\* next(store.select(key, chunksize=n, start=start).__iter__()): the n rows from
\* position start on, fewer at the end of the table
SelectFrom(tbl, start, n) ==
    SubSeq(TableRows(tbl), start, Min(start + n - 1, Len(tbl)))

\* ------------------------------------------------------- HDFDataStore.load
DefaultPeriods_NoPeriod(p) == IF p = None THEN <<>> ELSE p[1]

\* line 95
DefaultPeriods(p) == IF p = None THEN <<TimeFrame(None, None)>> ELSE p[1]

WindowIntersect_PeriodOnly(w, period) == period

\* line 97
WindowIntersect(w, period) == Intersect(w, period)

\* line 99: repeat(pd.DataFrame(), 1)
EmptyGenerator == <<(<<>>)>>

LookAheadCoords_NotStrict(tbl, data) ==
    IF Len(data) > 0 THEN SelectAsCoordinates(tbl, data[Len(data)].index - 1)
    ELSE <<>>

\* lines 107-111
LookAheadCoords(tbl, data) ==
    IF Len(data) > 0 THEN SelectAsCoordinates(tbl, data[Len(data)].index)
    ELSE <<>>

LookAhead_NextPosition(tbl, data, n) ==
    IF Len(data) > 0 /\ data[Len(data)].pos < Len(tbl)
    THEN SelectFrom(tbl, data[Len(data)].pos + 1, n)
    ELSE <<>>

\* lines 112-119
LookAhead(tbl, data, n) ==
    LET look_ahead_coords == LookAheadCoords(tbl, data)
    IN IF Len(look_ahead_coords) > 0
       THEN SelectFrom(tbl, look_ahead_coords[1], n)
       ELSE <<>>

\* lines 122-125
ChunkTimeframe(data) ==
    IF Len(data) > 0
    THEN TimeFrame(Some(data[1].index), Some(data[Len(data)].index))
    ELSE TimeFrame(None, None)

\* The store reads one group costs: lines 108 and 114
ChunkReads(tbl, data, p) ==
    (IF Len(data) > 0 THEN {[period |-> p, op |-> "select_as_coordinates"]} ELSE {})
    \cup (IF Len(LookAheadCoords(tbl, data)) > 0
          THEN {[period |-> p, op |-> "select_look_ahead"]} ELSE {})

PeriodLists ==
    UNION {[1..n -> TimeFrames] : n \in 0..MaxPeriods}

\* load(key, periods=p, n_look_ahead_rows=n, chunksize=c) is called
StartLoad ==
    /\ pc = "idle"
    /\ \E p \in {None} \cup {Some(l) : l \in PeriodLists},
          n \in 1..MaxLookAhead, c \in 1..MaxChunkSize :
          /\ arg_periods' = p
          /\ periods' = DefaultPeriods(p)
          /\ n_look_ahead_rows' = n
          /\ chunksize' = c
    /\ pi' = 0
    /\ generator' = <<>>
    /\ out' = <<>>
    /\ reads' = {}
    /\ pc' = "for_period"
    /\ UNCHANGED <<table, window, byCoords>>
    /\ UNCHANGED notLoadVars

\* lines 96-103: the outer loop takes the next period and builds its generator
ForPeriod ==
    /\ pc = "for_period"
    /\ pi < Len(periods)
    /\ LET period == periods[pi + 1]
           window_intersect == WindowIntersect(window, period)
       IN IF window_intersect.empty
          THEN /\ generator' = EmptyGenerator
               /\ reads' = reads
          ELSE /\ generator' = Select(table, window_intersect, chunksize, byCoords)
               /\ reads' = reads \cup {[period |-> pi + 1, op |-> "select"]}
    /\ pi' = pi + 1
    /\ pc' = "for_data"
    /\ UNCHANGED <<table, window, byCoords, arg_periods, periods, n_look_ahead_rows, chunksize, out>>
    /\ UNCHANGED notLoadVars

\* line 96, the periods exhausted: the generator returns
EndLoad ==
    /\ pc = "for_period"
    /\ pi = Len(periods)
    /\ pc' = "done"
    /\ UNCHANGED <<table, window, byCoords, arg_periods, periods, n_look_ahead_rows, chunksize,
                   pi, generator, out, reads>>
    /\ UNCHANGED notLoadVars

\* lines 105-127: the inner loop takes the next group, attaches look_ahead and
\* timeframe, and yields it
Yield ==
    /\ pc = "for_data"
    /\ generator # <<>>
    /\ LET data == Head(generator)
       IN /\ out' = Append(out, [period |-> pi,
                                 rows |-> data,
                                 look_ahead |-> LookAhead(table, data, n_look_ahead_rows),
                                 timeframe |-> ChunkTimeframe(data)])
          /\ reads' = reads \cup ChunkReads(table, data, pi)
    /\ generator' = Tail(generator)
    /\ UNCHANGED <<table, window, byCoords, pc, arg_periods, periods,
                   n_look_ahead_rows, chunksize, pi>>
    /\ UNCHANGED notLoadVars

\* line 105, the generator exhausted: back to the outer loop
EndPeriod ==
    /\ pc = "for_data"
    /\ generator = <<>>
    /\ pc' = "for_period"
    /\ UNCHANGED <<table, window, byCoords, arg_periods, periods, n_look_ahead_rows, chunksize,
                   pi, generator, out, reads>>
    /\ UNCHANGED notLoadVars

\* A read of the store may fail (the file is damaged, the disk gone, the handle
\* closed): the pandas call raises, the exception leaves load() at that line and
\* the generator is finished.

\* lines 102-103: store.select raises
FailSelect ==
    /\ pc = "for_period"
    /\ pi < Len(periods)
    /\ ~WindowIntersect(window, periods[pi + 1]).empty
    /\ pc' = "raised"
    /\ pi' = pi + 1
    /\ generator' = <<>>
    /\ reads' = reads \cup {[period |-> pi + 1, op |-> "select"]}
    /\ UNCHANGED <<table, window, byCoords, arg_periods, periods, n_look_ahead_rows, chunksize, out>>
    /\ UNCHANGED notLoadVars

\* line 105: the store's iterator raises while it reads the next group
FailGroupRead ==
    /\ pc = "for_data"
    /\ generator # <<>>
    /\ ~WindowIntersect(window, periods[pi]).empty
    /\ pc' = "raised"
    /\ generator' = <<>>
    /\ UNCHANGED <<table, window, byCoords, arg_periods, periods, n_look_ahead_rows, chunksize,
                   pi, out, reads>>
    /\ UNCHANGED notLoadVars

\* lines 108-109: store.select_as_coordinates raises
FailCoordinates ==
    /\ pc = "for_data"
    /\ generator # <<>>
    /\ Len(Head(generator)) > 0
    /\ pc' = "raised"
    /\ generator' = <<>>
    /\ reads' = reads \cup {[period |-> pi, op |-> "select_as_coordinates"]}
    /\ UNCHANGED <<table, window, byCoords, arg_periods, periods, n_look_ahead_rows, chunksize,
                   pi, out>>
    /\ UNCHANGED notLoadVars

FailLookAhead_Swallowed ==
    /\ pc = "for_data"
    /\ generator # <<>>
    /\ Len(LookAheadCoords(table, Head(generator))) > 0
    /\ out' = Append(out, [period |-> pi, rows |-> Head(generator), look_ahead |-> <<>>,
                           timeframe |-> ChunkTimeframe(Head(generator))])
    /\ pc' = "raised"
    /\ generator' = <<>>
    /\ reads' = reads \cup ChunkReads(table, Head(generator), pi)
    /\ UNCHANGED <<table, window, byCoords, arg_periods, periods, n_look_ahead_rows, chunksize,
                   pi>>
    /\ UNCHANGED notLoadVars

\* lines 114-117: the store.select of the look-ahead rows raises
FailLookAhead ==
    /\ pc = "for_data"
    /\ generator # <<>>
    /\ Len(LookAheadCoords(table, Head(generator))) > 0
    /\ pc' = "raised"
    /\ generator' = <<>>
    /\ reads' = reads \cup ChunkReads(table, Head(generator), pi)
    /\ UNCHANGED <<table, window, byCoords, arg_periods, periods, n_look_ahead_rows, chunksize,
                   pi, out>>
    /\ UNCHANGED notLoadVars

\* The caller drops the generator, finished or not; the next load() starts afresh
Discard ==
    /\ pc # "idle"
    /\ pc' = "idle"
    /\ arg_periods' = None
    /\ periods' = <<>>
    /\ n_look_ahead_rows' = 1
    /\ chunksize' = 1
    /\ pi' = 0
    /\ generator' = <<>>
    /\ out' = <<>>
    /\ reads' = {}
    /\ UNCHANGED <<table, window, byCoords>>
    /\ UNCHANGED notLoadVars

\* lines 129-130: store.append of one row.  The table is a time series written in
\* time order (two rows may share an index); no load() is under way and no
\* _nrows call is waiting to be taken.
AppendRow(t) ==
    /\ pc = "idle"
    /\ count.op = "none"
    /\ Len(table) < MaxRows
    /\ IF table = <<>> THEN TRUE ELSE table[Len(table)] <= t
    /\ table' = Append(table, t)
    /\ UNCHANGED <<window, byCoords, pc, arg_periods, periods, n_look_ahead_rows, chunksize,
                   pi, generator, out, reads>>
    /\ UNCHANGED notLoadVars

\* The owner sets DataStore.window (line 37 sets it to TimeFrame())
SetWindow(tf) ==
    /\ pc = "idle"
    /\ count.op = "none"
    /\ window' = tf
    /\ UNCHANGED <<table, byCoords, pc, arg_periods, periods, n_look_ahead_rows, chunksize,
                   pi, generator, out, reads>>
    /\ UNCHANGED notLoadVars

\* lines 36-37 and 41-50: a store just opened, its window the whole range
LoadInit ==
    /\ table = <<>>
    /\ window = TimeFrame(None, None)
    /\ byCoords \in BOOLEAN
    /\ pc = "idle"
    /\ arg_periods = None
    /\ periods = <<>>
    /\ n_look_ahead_rows = 1
    /\ chunksize = 1
    /\ pi = 0
    /\ generator = <<>>
    /\ out = <<>>
    /\ reads = {}

LoadNext ==
    \/ \E t \in Time : AppendRow(t)
    \/ \E tf \in TimeFrames : SetWindow(tf)
    \/ StartLoad
    \/ ForPeriod
    \/ EndLoad
    \/ Yield
    \/ EndPeriod
    \/ Discard

\* load() over a store whose reads may fail
FailNext ==
    \/ LoadNext
    \/ FailSelect
    \/ FailGroupRead
    \/ FailCoordinates
    \/ FailLookAhead

\* ------------------------------------------------------------------- _nrows
notCountVars == <<memVars, keyVars, joinVars, metaVars, colsVars, handleVars, bulkVars>>

\* TimeFrame.intersect(other), other possibly None: None restricts nothing
IntersectOrNone(self, other) == IF other = None THEN self ELSE Intersect(self, other[1])

\* bool(timeframe): an empty TimeFrame and one with neither start nor end are false
Truth(tf) == ~tf.empty /\ (tf.start # None \/ tf.end # None)

\* store.select_as_coordinates(key, terms): the positions of the rows that
\* satisfy the terms
SelectAsCoordinatesWhere(tbl, tf) ==
    SelectSeq([p \in 1..Len(tbl) |-> p], LAMBDA p : QueryTerms(tf, tbl[p]))

Nrows_NoEmptyTest(tbl, win, timeframe) ==
    LET timeframe_intersect == IntersectOrNone(win, timeframe)
    IN IF Truth(timeframe_intersect)
       THEN Len(SelectAsCoordinatesWhere(tbl, timeframe_intersect))
       ELSE Len(tbl)

\* lines 242-258: _nrows
Nrows(tbl, win, timeframe) ==
    LET timeframe_intersect == IntersectOrNone(win, timeframe)
    IN IF timeframe_intersect.empty THEN 0
       ELSE IF Truth(timeframe_intersect)
            THEN Len(SelectAsCoordinatesWhere(tbl, timeframe_intersect))
            ELSE Len(tbl)

NoCount == [op |-> "none", timeframe |-> None, nrows |-> 0]

\* _nrows(key, timeframe) is called, no load() under way
RowCount(timeframe) ==
    /\ pc = "idle"
    /\ count.op = "none"
    /\ count' = [op |-> "nrows", timeframe |-> timeframe,
                 nrows |-> Nrows(table, window, timeframe)]
    /\ UNCHANGED <<loadVars, notCountVars>>

\* The caller has taken the number
CountReturn ==
    /\ count.op # "none"
    /\ count' = NoCount
    /\ UNCHANGED <<loadVars, notCountVars>>

CountIdle == count = NoCount

CountNext ==
    \/ \E t \in Time : AppendRow(t)
    \/ \E tf \in TimeFrames : SetWindow(tf)
    \/ \E timeframe \in {None} \cup {Some(tf) : tf \in TimeFrames} : RowCount(timeframe)
    \/ CountReturn

\* ------------------------------------------------------------ close and open
notHandleVars == <<loadVars, memVars, keyVars, joinVars, metaVars, colsVars, countVars, bulkVars>>

\* pandas HDFStore.close(): the handle is closed afterwards, whatever it was
StoreClose(h) == FALSE

\* lines 179-180: close()
CloseHandle(h) == StoreClose(h)

OpenHandle_Reopens(h) == TRUE

\* lines 182-183: open(), which calls self.store.close()
OpenHandle(h) == StoreClose(h)

\* store.close()
Close ==
    /\ Len(calls) < MaxCalls
    /\ is_open' = CloseHandle(is_open)
    /\ calls' = Append(calls, "close")
    /\ UNCHANGED notHandleVars

\* store.open()
Open ==
    /\ Len(calls) < MaxCalls
    /\ is_open' = OpenHandle(is_open)
    /\ calls' = Append(calls, "open")
    /\ UNCHANGED notHandleVars

\* line 49: the constructor opens the pandas store
HandleInit ==
    /\ is_open = TRUE
    /\ calls = <<>>

HandleNext ==
    \/ Close
    \/ Open

\* ------------------------------------------- memory estimator and guard
Returned(v) == [error |-> "none", value |-> v]

Raised(e) == [error |-> e, value |-> 0]

SeqToSet(q) == {q[i] : i \in 1..Len(q)}

\* lines 280-287: _check_key
CheckKey(inStore) == IF inStore THEN Returned(0) ELSE Raised("KeyError")

\* lines 210-214: _column_names (and _get_storer, lines 274-278)
ColumnNames(inStore, tableCols) ==
    IF CheckKey(inStore).error # "none" THEN CheckKey(inStore)
    ELSE Returned(tableCols)

TableHasColumnNames_NoIndex(inStore, tableCols, cols) ==
    IF CheckKey(inStore).error # "none" THEN CheckKey(inStore)
    ELSE Returned(SeqToSet(cols) \subseteq SeqToSet(tableCols))

\* lines 192-208: _table_has_column_names, cols being a list
TableHasColumnNames(inStore, tableCols, cols) ==
    IF CheckKey(inStore).error # "none" THEN CheckKey(inStore)
    ELSE Returned(SeqToSet(cols) \subseteq (SeqToSet(tableCols) \cup {"index"}))

\* lines 185-190: _check_columns
CheckColumns(inStore, tableCols, columns) ==
    IF columns = None THEN Returned(0)
    ELSE LET has == TableHasColumnNames(inStore, tableCols, columns[1])
         IN IF has.error # "none" THEN has
            ELSE IF ~has.value THEN Raised("KeyError")
            ELSE Returned(0)

EstimateMemoryRequirement_IndexAlways(inStore, tableCols, nrows, cols, paranoid) ==
    IF cols = None /\ ~inStore THEN Raised("KeyError")
    ELSE Returned(nrows * Len(IF cols = None THEN tableCols ELSE cols[1]) * BYTES_PER_ELEMENT
                  + nrows * BYTES_PER_TIMESTAMP)

\* lines 224-240: _estimate_memory_requirement
EstimateMemoryRequirement(inStore, tableCols, nrows, cols, paranoid) ==
    LET key_checked == IF paranoid THEN CheckKey(inStore) ELSE Returned(0)
        resolved == IF cols = None THEN ColumnNames(inStore, tableCols)
                    ELSE IF paranoid
                         THEN LET chk == CheckColumns(inStore, tableCols, cols)
                              IN IF chk.error # "none" THEN chk ELSE Returned(cols[1])
                         ELSE Returned(cols[1])
    IN IF key_checked.error # "none" THEN key_checked
       ELSE IF resolved.error # "none" THEN resolved
       ELSE LET ncols == Len(resolved.value)
                est_mem_usage_for_data == nrows * ncols * BYTES_PER_ELEMENT
                est_mem_usage_for_index == nrows * BYTES_PER_TIMESTAMP
            IN IF resolved.value = <<"index">>
               THEN Returned(est_mem_usage_for_index)
               ELSE Returned(est_mem_usage_for_data + est_mem_usage_for_index)

CheckDataWillFitInMemory_AtLeast(inStore, tableCols, nrows, cols) ==
    LET mem_requirement == EstimateMemoryRequirement(inStore, tableCols, nrows, cols, FALSE)
    IN IF mem_requirement.error # "none" THEN mem_requirement
       ELSE IF mem_requirement.value >= MAX_MEM_ALLOWANCE_IN_BYTES
            THEN Raised("MemoryError")
            ELSE Returned(0)

\* lines 216-222: _check_data_will_fit_in_memory
CheckDataWillFitInMemory(inStore, tableCols, nrows, cols) ==
    LET mem_requirement == EstimateMemoryRequirement(inStore, tableCols, nrows, cols, FALSE)
    IN IF mem_requirement.error # "none" THEN mem_requirement
       ELSE IF mem_requirement.value > MAX_MEM_ALLOWANCE_IN_BYTES
            THEN Raised("MemoryError")
            ELSE Returned(0)

\* The column names a caller asks for: "c" is in no table
Names == {"index", "a", "b", "c"}

ColumnLists == UNION {[1..n -> Names] : n \in 0..MaxCols}

\* The non-index column names a table has
TableColumnLists ==
    {q \in UNION {[1..n -> {"a", "b"}] : n \in 0..MaxCols} :
        \A i \in 1..Len(q), j \in 1..Len(q) : q[i] = q[j] => i = j}

\* Row counts: small ones, and those around allowance / (2 columns * 4 + 8) and
\* allowance / (3 columns * 4 + 8)
RowCounts == {0, 1, 1000, 49999999, 50000000, 50000001, 62499999, 62500000, 62500001}

NoCall == [op |-> "none", nrows |-> 0, cols |-> None, paranoid |-> FALSE,
           error |-> "none", value |-> 0]

\* _estimate_memory_requirement(key, nrows, cols, paranoid) is called
Estimate(nrows, cols, paranoid) ==
    /\ mem.op = "none"
    /\ LET r == EstimateMemoryRequirement(stored, col_names, nrows, cols, paranoid)
       IN mem' = [op |-> "estimate", nrows |-> nrows, cols |-> cols,
                  paranoid |-> paranoid, error |-> r.error, value |-> r.value]
    /\ UNCHANGED <<stored, col_names, loadVars, keyVars, restVars>>

\* _check_data_will_fit_in_memory(key, nrows, cols) is called
CheckFits(nrows, cols) ==
    /\ mem.op = "none"
    /\ LET r == CheckDataWillFitInMemory(stored, col_names, nrows, cols)
       IN mem' = [op |-> "check", nrows |-> nrows, cols |-> cols,
                  paranoid |-> FALSE, error |-> r.error, value |-> r.value]
    /\ UNCHANGED <<stored, col_names, loadVars, keyVars, restVars>>

\* The caller has taken the result (or caught the error) of the last call
MemReturn ==
    /\ mem.op # "none"
    /\ mem' = NoCall
    /\ UNCHANGED <<stored, col_names, loadVars, keyVars, restVars>>

\* A store that holds the table, or does not, and no call made yet
MemInit ==
    /\ stored \in BOOLEAN
    /\ col_names \in TableColumnLists
    /\ mem = NoCall

\* The memory state of a run that calls neither the estimator nor the guard
MemIdle ==
    /\ stored = TRUE
    /\ col_names = <<>>
    /\ mem = NoCall

MemNext ==
    \/ \E nrows \in RowCounts, cols \in {None} \cup {Some(l) : l \in ColumnLists},
          paranoid \in BOOLEAN : Estimate(nrows, cols, paranoid)
    \/ \E nrows \in RowCounts, cols \in {None} \cup {Some(l) : l \in ColumnLists} :
          CheckFits(nrows, cols)
    \/ MemReturn

\* ------------------------------------------------- load() of a large table
\* The same load(), of a table whose rows are counted, not listed: the window
\* and the one period are the whole range, so that the groups are the table's
\* rows, chunksize at a time.
notBulkVars == <<loadVars, memVars, keyVars, joinVars, metaVars, colsVars, countVars, handleVars>>

LoadMemoryCheck_Guarded(inStore, tableCols, nrows, cols) ==
    CheckDataWillFitInMemory(inStore, tableCols, nrows, cols)

\* lines 95-127: what load() does about memory before and while it reads: it
\* calls neither _check_data_will_fit_in_memory nor _estimate_memory_requirement
LoadMemoryCheck(inStore, tableCols, nrows, cols) == Returned(0)

\* chunksize: the default, and one a whole large table fits in
ChunkSizes == {DEFAULT_CHUNKSIZE, 62500001}

NoBulk == [pc |-> "idle", nrows |-> 0, cols |-> None, chunksize |-> 0,
           yielded |-> 0, last |-> 0, error |-> "none"]

\* load(key, cols=cols, chunksize=c) is called on a table of nrows rows and the
\* generator runs up to its first read
BulkLoad(nrows, cols, c) ==
    /\ bulk.pc = "idle"
    /\ LET checked_mem == LoadMemoryCheck(stored, col_names, nrows, cols)
       IN bulk' = [pc |-> IF checked_mem.error = "none" THEN "for_data" ELSE "raised",
                   nrows |-> nrows, cols |-> cols, chunksize |-> c,
                   yielded |-> 0, last |-> 0, error |-> checked_mem.error]
    /\ UNCHANGED notBulkVars

\* lines 105-127: the next group of at most chunksize rows is read and yielded
BulkYield ==
    /\ bulk.pc = "for_data"
    /\ bulk.yielded < bulk.nrows
    /\ LET n == Min(bulk.chunksize, bulk.nrows - bulk.yielded)
           checked_mem == LoadMemoryCheck(stored, col_names, n, bulk.cols)
       IN IF checked_mem.error = "none"
          THEN bulk' = [bulk EXCEPT !.yielded = bulk.yielded + n, !.last = n]
          ELSE bulk' = [bulk EXCEPT !.pc = "raised", !.error = checked_mem.error]
    /\ UNCHANGED notBulkVars

\* lines 96 and 105: no group and no period left, the generator returns
BulkEnd ==
    /\ bulk.pc = "for_data"
    /\ bulk.yielded = bulk.nrows
    /\ bulk' = [bulk EXCEPT !.pc = "done"]
    /\ UNCHANGED notBulkVars

\* The caller drops the generator
BulkDiscard ==
    /\ bulk.pc # "idle"
    /\ bulk' = NoBulk
    /\ UNCHANGED notBulkVars

BulkIdle == bulk = NoBulk

BulkNext ==
    \/ \E nrows \in RowCounts, cols \in {None} \cup {Some(l) : l \in ColumnLists},
          c \in ChunkSizes : BulkLoad(nrows, cols, c)
    \/ BulkYield
    \/ BulkEnd
    \/ BulkDiscard

\* ----------------------------------------------------------- _check_columns
notColsVars == <<loadVars, memVars, keyVars, joinVars, metaVars, countVars, handleVars, bulkVars>>

\* The calls on the pandas store that _check_columns makes: store.keys() in
\* _check_key (through _keys), store.get_storer(key) in _column_names
CheckColumnsStoreCalls(inStore, columns) ==
    IF columns = None THEN {}
    ELSE IF CheckKey(inStore).error # "none" THEN {"keys"}
    ELSE {"keys", "get_storer"}

NoCheck == [op |-> "none", columns |-> None, error |-> "none", store_calls |-> {}]

\* _check_columns(key, columns), columns being None or a list of names
ValidateColumns(columns) ==
    /\ checked.op = "none"
    /\ checked' = [op |-> "check_columns", columns |-> columns,
                   error |-> CheckColumns(stored, col_names, columns).error,
                   store_calls |-> CheckColumnsStoreCalls(stored, columns)]
    /\ UNCHANGED notColsVars

\* _check_columns(key, name), columns being one name: a string is taken as the
\* list of that one name (lines 203-204)
ValidateColumn(name) ==
    /\ checked.op = "none"
    /\ LET cols == Some(<<name>>)
       IN checked' = [op |-> "check_column", columns |-> cols,
                      error |-> CheckColumns(stored, col_names, cols).error,
                      store_calls |-> CheckColumnsStoreCalls(stored, cols)]
    /\ UNCHANGED notColsVars

\* The caller has taken the result (or caught the error) of the last call
ColsReturn ==
    /\ checked.op # "none"
    /\ checked' = NoCheck
    /\ UNCHANGED notColsVars

ColsIdle == checked = NoCheck

ColsNext ==
    \/ \E columns \in {None} \cup {Some(l) : l \in ColumnLists} : ValidateColumns(columns)
    \/ \E name \in Names : ValidateColumn(name)
    \/ ColsReturn

\* ------------------------------------------------------------------ strings
\* A string is the sequence of its characters.
Str_building == <<"b", "u", "i", "l", "d", "i", "n", "g">>

Str_meter == <<"m", "e", "t", "e", "r">>

Str_elec == <<"e", "l", "e", "c">>

Digit == <<"0", "1", "2", "3", "4", "5", "6", "7", "8", "9">>

RECURSIVE LStrip(_)
LStrip(s) == IF s # <<>> /\ Head(s) = "/" THEN LStrip(Tail(s)) ELSE s

RECURSIVE RStrip(_)
RStrip(s) ==
    IF s # <<>> /\ s[Len(s)] = "/" THEN RStrip(SubSeq(s, 1, Len(s) - 1)) ELSE s

\* str.strip('/')
Strip(s) == RStrip(LStrip(s))

RECURSIVE Split(_)
\* str.split('/'): the pieces between the slashes, empty ones kept
Split(s) ==
    IF \A i \in 1..Len(s) : s[i] # "/" THEN <<s>>
    ELSE LET i == SetMinOf({j \in 1..Len(s) : s[j] = "/"})
         IN <<SubSeq(s, 1, i - 1)>> \o Split(SubSeq(s, i + 1, Len(s)))

\* str.startswith
StartsWith(s, prefix) ==
    Len(s) >= Len(prefix) /\ SubSeq(s, 1, Len(prefix)) = prefix

RECURSIVE Remove(_, _)
\* str.replace(old, ""): every occurrence of old, left to right, taken out
Remove(s, old) ==
    IF Len(s) < Len(old) THEN s
    ELSE IF StartsWith(s, old) THEN Remove(SubSeq(s, Len(old) + 1, Len(s)), old)
    ELSE <<Head(s)>> \o Remove(Tail(s), old)

IsDigit(c) == \E d \in 1..10 : Digit[d] = c

DigitValue(c) == (CHOOSE d \in 1..10 : Digit[d] = c) - 1

RECURSIVE DigitsValue(_)
DigitsValue(s) ==
    IF s = <<>> THEN 0
    ELSE DigitsValue(SubSeq(s, 1, Len(s) - 1)) * 10 + DigitValue(s[Len(s)])

\* int(s): an optional sign and one or more decimal digits; None stands for the
\* ValueError of any other text
ParseInt(s) ==
    LET signed == s # <<>> /\ Head(s) \in {"-", "+"}
        body == IF signed THEN Tail(s) ELSE s
    IN IF body = <<>> \/ \E i \in 1..Len(body) : ~IsDigit(body[i]) THEN None
       ELSE IF signed /\ Head(s) = "-" THEN Some(0 - DigitsValue(body))
       ELSE Some(DigitsValue(body))

RECURSIVE FormatDigits(_)
FormatDigits(n) ==
    IF n < 10 THEN <<Digit[n + 1]>>
    ELSE FormatDigits(n \div 10) \o <<Digit[(n % 10) + 1]>>

\* "{:d}".format(n)
FormatD(n) == IF n < 0 THEN <<"-">> \o FormatDigits(0 - n) ELSE FormatDigits(n)

\* ---------------------------------------------------------------------- Key
NoKey(e) == [error |-> e, building |-> None, meter |-> None, utility |-> None]

\* lines 353-358: _check, on the attributes __init__ has set
KeyCheck(building, meter, utility) ==
    IF building = None THEN NoKey("AssertionError")
    ELSE IF ~(building[1] >= 1) THEN NoKey("AssertionError")
    ELSE IF meter # None /\ ~(meter[1] >= 1) THEN NoKey("AssertionError")
    ELSE [error |-> "none", building |-> building, meter |-> meter, utility |-> utility]

\* lines 323-351: Key.__init__(string, building, meter); the Key made, or the error
KeyInit(string, building, meter) ==
    IF string = None THEN KeyCheck(building, meter, None)
    ELSE LET split == Split(Strip(string[1]))
             b == ParseInt(Remove(split[1], Str_building))
             utility == IF Len(split) > 1 THEN Some(split[2]) ELSE None
         IN IF ~StartsWith(split[1], Str_building) THEN NoKey("AssertionError")
            ELSE IF b = None THEN NoKey("ValueError")
            ELSE IF Len(split) = 3
                 THEN IF ~StartsWith(split[3], Str_meter) THEN NoKey("AssertionError")
                      ELSE LET m == ParseInt(Remove(split[3], Str_meter))
                           IN IF m = None THEN NoKey("ValueError")
                              ELSE KeyCheck(b, m, utility)
                 ELSE KeyCheck(b, None, utility)

KeyRepr_NoUtility(k) ==
    <<"/">> \o Str_building \o FormatD(k.building[1])
    \o (IF k.meter # None THEN <<"/">> \o Str_meter \o FormatD(k.meter[1]) ELSE <<>>)

\* lines 360-365: Key.__repr__ of a Key that passes _check
KeyRepr(k) ==
    <<"/">> \o Str_building \o FormatD(k.building[1])
    \o (IF k.meter # None
        THEN <<"/">> \o Str_elec \o <<"/">> \o Str_meter \o FormatD(k.meter[1])
        ELSE <<>>)

\* The texts that follow 'building' or 'meter' in the strings parsed
SuffixChars == {"0", "1", "x"}

Suffixes == UNION {[1..n -> SuffixChars] : n \in 0..MaxSuffix}

FirstSegments ==
    {p \o x : p \in {Str_building, <<"b", "l", "d", "g">>}, x \in Suffixes}
    \cup {Str_building \o <<"1">> \o Str_building, Str_building \o <<"-", "1">>}

MeterSegments ==
    {p \o x : p \in {Str_meter, <<"m", "t", "r">>}, x \in Suffixes}
    \cup {Str_meter \o <<"-", "1">>}

Paths ==
    FirstSegments
    \cup {f \o <<"/">> \o Str_elec : f \in FirstSegments}
    \cup {f \o <<"/">> \o Str_elec \o <<"/">> \o m : f \in FirstSegments, m \in MeterSegments}
    \cup {f \o <<"/">> \o Str_elec \o <<"/">> \o Str_meter \o <<"0", "/", "x">> :
             f \in FirstSegments}

KeyStrings == {a \o q \o z : a \in {<<>>, <<"/">>}, q \in Paths, z \in {<<>>, <<"/">>}}

KeyNumbers == {None} \cup {Some(n) : n \in (0 - 1)..MaxKeyNum}

NoKeyCall == [op |-> "none", string |-> None, error |-> "none",
              building |-> None, meter |-> None, utility |-> None]

NotRendered == [done |-> FALSE, building |-> None, meter |-> None, str |-> <<>>]

KeyCall(op, string, k) ==
    [op |-> op, string |-> string, error |-> k.error,
     building |-> k.building, meter |-> k.meter, utility |-> k.utility]

\* Key(string)
KeyParse(s) ==
    /\ key.op = "none"
    /\ key' = KeyCall("parse", Some(s), KeyInit(Some(s), None, None))
    /\ UNCHANGED <<rendered, loadVars, memVars, restVars>>

\* Key(building=b, meter=m)
KeyBuild(b, m) ==
    /\ key.op = "none"
    /\ key' = KeyCall("build", None, KeyInit(None, b, m))
    /\ UNCHANGED <<rendered, loadVars, memVars, restVars>>

\* repr(key) of the Key just made
KeyRender ==
    /\ key.op \in {"parse", "build"}
    /\ key.error = "none"
    /\ ~rendered.done
    /\ rendered' = [done |-> TRUE, building |-> key.building, meter |-> key.meter,
                    str |-> KeyRepr(key)]
    /\ UNCHANGED <<key, loadVars, memVars, restVars>>

\* Key(repr(key))
KeyReparse ==
    /\ rendered.done
    /\ key.op # "reparse"
    /\ key' = KeyCall("reparse", Some(rendered.str), KeyInit(Some(rendered.str), None, None))
    /\ UNCHANGED <<rendered, loadVars, memVars, restVars>>

\* The caller lets go of the Key and of its string
KeyForget ==
    /\ key.op # "none"
    /\ key' = NoKeyCall
    /\ rendered' = NotRendered
    /\ UNCHANGED <<loadVars, memVars, restVars>>

KeyIdle ==
    /\ key = NoKeyCall
    /\ rendered = NotRendered

KeyNext ==
    \/ \E s \in KeyStrings : KeyParse(s)
    \/ \E b \in KeyNumbers, m \in KeyNumbers : KeyBuild(b, m)
    \/ KeyRender
    \/ KeyReparse
    \/ KeyForget

\* ----------------------------------------------------------------- join_key
notJoinVars == <<loadVars, memVars, keyVars, metaVars, colsVars, countVars, handleVars, bulkVars>>

\* str(arg) of an argument that is a string or an integer
Str(arg) == IF arg.int THEN FormatD(arg.n) ELSE arg.s

RECURSIVE JoinKeyFor(_, _)
\* join_key, the for loop: k is the key built so far, args the arguments left
JoinKeyFor(k, args) ==
    IF args = <<>> THEN k
    ELSE LET arg_stripped == Strip(Str(Head(args)))
         IN JoinKeyFor(IF arg_stripped # <<>> THEN k \o arg_stripped \o <<"/">> ELSE k,
                       Tail(args))

JoinKey_TrailingSlash(args) == JoinKeyFor(<<"/">>, args)

\* join_key(*args)
JoinKey(args) ==
    LET k == JoinKeyFor(<<"/">>, args)
    IN IF Len(k) > 1 THEN SubSeq(k, 1, Len(k) - 1) ELSE k

RECURSIVE Slashes(_)
\* The strings of at most n slashes
Slashes(n) == IF n = 0 THEN {<<>>} ELSE Slashes(n - 1) \cup {<<"/">> \o s : s \in Slashes(n - 1)}

\* What is left of an argument when its slashes are stripped
ArgCores == {<<>>, <<"a">>, <<"a", "/", "b">>}

\* The arguments a caller passes: strings, and integers such as a meter number
JoinArgs ==
    {[int |-> FALSE, s |-> pre \o core \o post, n |-> 0] :
        pre \in Slashes(MaxSlashes), core \in ArgCores, post \in Slashes(MaxSlashes)}
    \cup {[int |-> TRUE, s |-> <<>>, n |-> n] : n \in {7, 10}}

RECURSIVE ArgLists(_)
ArgLists(n) ==
    IF n = 0 THEN {<<>>}
    ELSE LET shorter == ArgLists(n - 1)
         IN shorter \cup {l \o <<a>> : l \in shorter, a \in JoinArgs}

NoJoin == [op |-> "none", args |-> <<>>, result |-> <<>>]

\* join_key(*args), with any arguments
Join ==
    /\ joined.op = "none"
    /\ \E args \in ArgLists(MaxArgs) :
          joined' = [op |-> "join_key", args |-> args, result |-> JoinKey(args)]
    /\ UNCHANGED notJoinVars

\* The caller lets go of the joined key
JoinForget ==
    /\ joined.op # "none"
    /\ joined' = NoJoin
    /\ UNCHANGED notJoinVars

JoinIdle == joined = NoJoin

JoinNext ==
    \/ Join
    \/ JoinForget

\* ----------------------------------------------------------------- metadata
\* A metadata payload is a dict holding a value and a nested dict, which holds a
\* value: [val, child] with child the id of the nested dict, 0 in a nested dict.
notMetaVars == <<loadVars, memVars, keyVars, joinVars, colsVars, countVars, handleVars, bulkVars>>

Ids == 1..MaxObjects

Vals == 0..MaxVal

Free == [val |-> 0 - 1, child |-> 0]

Nodes == {"root", "/building1"}

MetaKeys == {"/", "/building1"}

\* load_metadata, save_metadata: the node of a key
GetNode(k) == IF k = "/" THEN "root" ELSE k

FreeIds(hp) == {i \in Ids : hp[i] = Free}

\* The dicts that can still be reached: those held or attached, and their nested dicts
Reachable(hp, roots) == roots \cup {hp[r].child : r \in roots}

\* The heap once the dicts nothing refers to are gone
Collect(hp, roots) == [i \in Ids |-> IF i \in Reachable(hp, roots) THEN hp[i] ELSE Free]

\* The content of the dict r
DeepValue(hp, r) == [val |-> hp[r].val, child |-> hp[hp[r].child].val]

\* A new dict of content v: its id and the heap with it
NewDict(hp, v) ==
    LET o == SetMinOf(FreeIds(hp))
        i == SetMinOf(FreeIds(hp) \ {o})
    IN [ref |-> o,
        heap |-> [hp EXCEPT ![o] = [val |-> v.val, child |-> i],
                            ![i] = [val |-> v.child, child |-> 0]]]

DeepCopy_Shallow(hp, r) ==
    LET o == SetMinOf(FreeIds(hp))
    IN [ref |-> o, heap |-> [hp EXCEPT ![o] = hp[r]]]

\* copy.deepcopy(r): a new dict with a new nested dict, of the same content
DeepCopy(hp, r) == NewDict(hp, DeepValue(hp, r))

MetaValues == [val : Vals, child : Vals]

\* metadata = load_metadata(key)
LoadMetadata(k) ==
    /\ Cardinality(held) < MaxHeld
    /\ Cardinality(FreeIds(heap)) >= 2
    /\ LET node == GetNode(k)
           metadata == DeepCopy(heap, attrs[node])
       IN /\ heap' = metadata.heap
          /\ held' = held \cup {metadata.ref}
          /\ returned' = returned \cup {metadata.ref}
    /\ UNCHANGED <<attrs, disk, saved, mutated>>
    /\ UNCHANGED notMetaVars

\* save_metadata(key, metadata), metadata being a dict the caller holds
SaveMetadata(k, r) ==
    /\ r \in held
    /\ LET node == GetNode(k)
       IN /\ attrs' = [attrs EXCEPT ![node] = r]
          /\ disk' = [disk EXCEPT ![node] = DeepValue(heap, r)]
    /\ saved' = saved \cup {r}
    /\ heap' = Collect(heap, held \cup {attrs'[n] : n \in Nodes})
    /\ UNCHANGED <<held, returned, mutated>>
    /\ UNCHANGED notMetaVars

\* The caller writes a metadata dict of its own
MakeMetadata(v) ==
    /\ Cardinality(held) < MaxHeld
    /\ Cardinality(FreeIds(heap)) >= 2
    /\ LET metadata == NewDict(heap, v)
       IN /\ heap' = metadata.heap
          /\ held' = held \cup {metadata.ref}
    /\ UNCHANGED <<attrs, disk, returned, saved, mutated>>
    /\ UNCHANGED notMetaVars

\* The caller changes a value of a dict it holds: metadata[...] = v
SetItem(r, v) ==
    /\ r \in held
    /\ heap[r].val # v
    /\ heap' = [heap EXCEPT ![r].val = v]
    /\ mutated' = mutated \cup {r}
    /\ UNCHANGED <<attrs, disk, held, returned, saved>>
    /\ UNCHANGED notMetaVars

\* The caller changes a value of the nested dict: metadata[...][...] = v
SetNestedItem(r, v) ==
    /\ r \in held
    /\ heap[heap[r].child].val # v
    /\ heap' = [heap EXCEPT ![heap[r].child].val = v]
    /\ mutated' = mutated \cup {r}
    /\ UNCHANGED <<attrs, disk, held, returned, saved>>
    /\ UNCHANGED notMetaVars

\* The caller lets go of a dict it holds
DelMetadata(r) ==
    /\ r \in held
    /\ held' = held \ {r}
    /\ returned' = returned \ {r}
    /\ saved' = saved \ {r}
    /\ mutated' = mutated \ {r}
    /\ heap' = Collect(heap, held' \cup {attrs[n] : n \in Nodes})
    /\ UNCHANGED <<attrs, disk>>
    /\ UNCHANGED notMetaVars

\* The store as opened: each node's metadata read from the file, nothing held
MetaInit ==
    /\ disk = [n \in Nodes |-> [val |-> 0, child |-> 0]]
    /\ attrs = [n \in Nodes |-> IF n = "root" THEN 1 ELSE 3]
    /\ heap = [i \in Ids |->
                 IF i = 1 THEN [val |-> disk["root"].val, child |-> 2]
                 ELSE IF i = 2 THEN [val |-> disk["root"].child, child |-> 0]
                 ELSE IF i = 3 THEN [val |-> disk["/building1"].val, child |-> 4]
                 ELSE IF i = 4 THEN [val |-> disk["/building1"].child, child |-> 0]
                 ELSE Free]
    /\ held = {}
    /\ returned = {}
    /\ saved = {}
    /\ mutated = {}

MetaIdle == MetaInit

MetaNext ==
    \/ \E k \in MetaKeys : LoadMetadata(k)
    \/ \E k \in MetaKeys, r \in Ids : SaveMetadata(k, r)
    \/ \E v \in MetaValues : MakeMetadata(v)
    \/ \E r \in Ids, v \in Vals : SetItem(r, v)
    \/ \E r \in Ids, v \in Vals : SetNestedItem(r, v)
    \/ \E r \in Ids : DelMetadata(r)

\* ------------------------------------------------------------ properties
\* t lies in the half-open interval tf
Inside(tf, t) ==
    /\ ~tf.empty
    /\ (tf.start = None \/ tf.start[1] <= t)
    /\ (tf.end = None \/ t < tf.end[1])

\* No time lies in both intervals (their ends are among 1..MaxTime or unbounded)
Disjoint(a, b) == ~\E t \in 0..(MaxTime + 1) : Inside(a, t) /\ Inside(b, t)

Indexes(rows) == {rows[j].index : j \in 1..Len(rows)}

SetMin(S) == CHOOSE x \in S : \A y \in S : x <= y

SetMax(S) == CHOOSE x \in S : \A y \in S : x >= y

Unbounded == [start |-> None, end |-> None, empty |-> FALSE]

\* The periods whose inner loop has ended
Finished(q) == q < pi \/ (q = pi /\ pc \in {"for_period", "done"})

ChunksOf(q) == {k \in 1..Len(out) : out[k].period = q}

\* C1: every row of every chunk load yields has its index inside the window and
\* inside the period the chunk was produced for.
C1_RowsInsideWindowAndPeriod ==
    \A k \in 1..Len(out) : \A t \in Indexes(out[k].rows) :
        Inside(window, t) /\ Inside(periods[out[k].period], t)

\* C1 witness: a chunk with rows was yielded from a table that also holds a row
\* outside the window and a row inside the window but outside the chunk's period.
C1_Witness ==
    \E k \in 1..Len(out) :
        /\ out[k].rows # <<>>
        /\ \E p \in 1..Len(table) : ~Inside(window, table[p])
        /\ \E p \in 1..Len(table) :
              Inside(window, table[p]) /\ ~Inside(periods[out[k].period], table[p])

\* C2 (as claimed): a period whose intersection with the window is empty gets
\* exactly one chunk, with zero rows, an empty timeframe and an empty look-ahead,
\* and no store read is made for it.
C2_EmptyIntersectionChunk ==
    \A q \in 1..Len(periods) :
        (Finished(q) /\ Disjoint(window, periods[q])) =>
            /\ Cardinality(ChunksOf(q)) = 1
            /\ \A k \in ChunksOf(q) :
                  /\ out[k].rows = <<>>
                  /\ out[k].look_ahead = <<>>
                  /\ out[k].timeframe.empty
            /\ ~\E r \in reads : r.period = q

\* C3 (as claimed): a chunk's timeframe is the empty interval when the chunk has no
\* rows, and otherwise runs from the least to the greatest index of its rows.
C3_ChunkTimeframe ==
    \A k \in 1..Len(out) :
        IF out[k].rows = <<>>
        THEN out[k].timeframe.empty
        ELSE /\ ~out[k].timeframe.empty
             /\ out[k].timeframe.start = Some(SetMin(Indexes(out[k].rows)))
             /\ out[k].timeframe.end = Some(SetMax(Indexes(out[k].rows)))

\* C4: a chunk's look-ahead has at most n_look_ahead_rows rows, and each of them has
\* an index greater than every index of the chunk's rows.
C4_LookAheadBoundedAndAfter ==
    \A k \in 1..Len(out) :
        /\ Len(out[k].look_ahead) <= n_look_ahead_rows
        /\ out[k].look_ahead # <<>> =>
              /\ out[k].rows # <<>>
              /\ SetMin(Indexes(out[k].look_ahead)) > SetMax(Indexes(out[k].rows))

\* C4 witness: a look-ahead cut at n_look_ahead_rows, more rows following on disk,
\* while a row with the chunk's last index precedes it on disk.
C4_Witness ==
    \E k \in 1..Len(out) :
        /\ out[k].rows # <<>>
        /\ Len(out[k].look_ahead) = n_look_ahead_rows
        /\ Cardinality({p \in 1..Len(table) :
                          table[p] > SetMax(Indexes(out[k].rows))}) > n_look_ahead_rows

\* C5: a non-empty chunk's look-ahead is the run of up to n_look_ahead_rows
\* consecutive on-disk rows from the first on-disk row whose index is after the
\* chunk's last index, inside the window and the period or not; it is empty exactly
\* when the chunk is empty or no on-disk row is after the chunk's last index.
C5_LookAheadIsOnDiskSuccessor ==
    \A k \in 1..Len(out) :
        LET c == out[k]
            after == IF c.rows = <<>> THEN {}
                     ELSE {p \in 1..Len(table) : table[p] > c.rows[Len(c.rows)].index}
        IN IF after = {}
           THEN c.look_ahead = <<>>
           ELSE LET first == SetMin(after)
                    len == Min(n_look_ahead_rows, Len(table) - first + 1)
                IN /\ len >= 1
                   /\ c.look_ahead = [i \in 1..len |->
                          [pos |-> first + i - 1, index |-> table[first + i - 1]]]

\* C5 witness: a look-ahead holding a row that lies outside the window, from a
\* table in which the row after the chunk's last row shares its index.
C5_Witness ==
    \E k \in 1..Len(out) :
        /\ out[k].rows # <<>>
        /\ \E t \in Indexes(out[k].look_ahead) : ~Inside(window, t)
        /\ LET last == out[k].rows[Len(out[k].rows)]
           IN last.pos < Len(table) /\ table[last.pos + 1] = last.index

RECURSIVE ConcatRows(_)
ConcatRows(chunks) ==
    IF chunks = <<>> THEN <<>> ELSE Head(chunks).rows \o ConcatRows(Tail(chunks))

\* C6: with the whole-range window and no periods given, the rows of the chunks
\* yielded, concatenated in yield order, are the table's rows in on-disk order; no
\* chunk has more than chunksize rows and chunk k starts (k - 1) * chunksize rows in.
C6_FullLoadReproducesTable ==
    (pc = "done" /\ window = Unbounded /\ arg_periods = None) =>
        /\ ConcatRows(out) = [p \in 1..Len(table) |-> [pos |-> p, index |-> table[p]]]
        /\ \A k \in 1..Len(out) :
              /\ Len(out[k].rows) \in 1..chunksize
              /\ out[k].rows[1].pos = (k - 1) * chunksize + 1

\* C6 witness: a full load that took more than one chunk, the last one short.
C6_Witness ==
    /\ pc = "done" /\ window = Unbounded /\ arg_periods = None
    /\ Len(out) >= 2
    /\ Len(out[Len(out)].rows) < chunksize

\* The estimate the claims state, for the column names the call resolves to
ClaimedBytes(nrows, names) ==
    IF names = <<"index">> THEN nrows * 8 ELSE nrows * Len(names) * 4 + nrows * 8

ResolvedNames(cols) == IF cols = None THEN col_names ELSE cols[1]

\* C7: the guard raises MemoryError exactly when the estimate is greater than the
\* allowance, returns normally when it is equal or below, and changes no state.
C7_CheckFitsRaisesIffOver ==
    /\ [](mem.op = "check" =>
            LET est == EstimateMemoryRequirement(stored, col_names, mem.nrows, mem.cols, FALSE)
            IN /\ est.error = "none" =>
                    /\ mem.error = "MemoryError" <=> est.value > 1000000000
                    /\ mem.error = "none" <=> est.value <= 1000000000
               /\ est.error # "none" => mem.error = est.error)
    /\ [][mem'.op = "check" => UNCHANGED <<stored, col_names, loadVars>>]_<<mem, stored, col_names, loadVars>>

\* C7 witness: the guard returned normally on an estimate equal to the allowance.
C7_Witness ==
    /\ mem.op = "check"
    /\ mem.error = "none"
    /\ ClaimedBytes(mem.nrows, ResolvedNames(mem.cols)) = 1000000000

\* C8: the estimator returns nrows * len(columns) * 4 + nrows * 8, only nrows * 8
\* when the column list is exactly [index]; with no columns given the table's own
\* column names are the list.  A call that gives the columns, or names a table the
\* store holds, returns (a paranoid call may raise KeyError instead).
C8_EstimateBytes ==
    mem.op = "estimate" =>
        /\ mem.error = "none" =>
              mem.value = ClaimedBytes(mem.nrows, ResolvedNames(mem.cols))
        /\ (~mem.paranoid /\ (mem.cols # None \/ stored)) => mem.error = "none"

\* C8 witness: the estimator resolved absent columns to a table of two columns,
\* for a positive row count.
C8_Witness ==
    /\ mem.op = "estimate"
    /\ mem.error = "none"
    /\ mem.cols = None
    /\ Len(col_names) = 2
    /\ mem.nrows = 1000
    /\ mem.value = 16000

\* The segments of a key string, and the text after a segment's leading word
Segments(s) == Split(Strip(s))

After(seg, word) == SubSeq(seg, Len(word) + 1, Len(seg))

\* The string is not of the grammar building<B>[/<utility>[/meter<M>]]: its first
\* segment does not start with 'building', or <B> or <M> is not an integer
FormatBad(s) ==
    LET g == Segments(s)
    IN \/ ~StartsWith(g[1], Str_building)
       \/ ParseInt(After(g[1], Str_building)) = None
       \/ Len(g) = 3 /\ StartsWith(g[3], Str_meter) /\ ParseInt(After(g[3], Str_meter)) = None

\* The string is of the grammar, and its building number, or its meter number, is
\* less than 1
ValidationBad(s) ==
    LET g == Segments(s)
    IN /\ StartsWith(g[1], Str_building)
       /\ ParseInt(After(g[1], Str_building)) # None
       /\ \/ ParseInt(After(g[1], Str_building))[1] < 1
          \/ /\ Len(g) = 3
             /\ StartsWith(g[3], Str_meter)
             /\ ParseInt(After(g[3], Str_meter)) # None
             /\ ParseInt(After(g[3], Str_meter))[1] < 1

\* The error Key("building0/elec/meter1") ends in: the validation error
ValidationErrorKind ==
    KeyInit(Some(Str_building \o <<"0", "/">> \o Str_elec \o <<"/">> \o Str_meter \o <<"1">>),
            None, None).error

\* C9 (as claimed): parsing a string that is not of the grammar fails with a format
\* error, parsing one whose building or meter number is less than 1 fails with the
\* validation error, a different kind of error, and no Key with a building or a
\* meter less than 1 is made.
C9_ParseErrorKinds ==
    key.op = "parse" =>
        /\ FormatBad(key.string[1]) =>
              key.error # "none" /\ key.error # ValidationErrorKind
        /\ ValidationBad(key.string[1]) =>
              key.error # "none" /\ key.error = ValidationErrorKind
        /\ key.error = "none" =>
              /\ key.building # None /\ key.building[1] >= 1
              /\ key.meter # None => key.meter[1] >= 1

\* ds is the decimal numeral of n
IsDecimalOf(ds, n) ==
    /\ ds # <<>>
    /\ \A i \in 1..Len(ds) : IsDigit(ds[i])
    /\ Len(ds) > 1 => ds[1] # "0"
    /\ DigitsValue(ds) = n

\* str is /building<B>, followed by /elec/meter<M> exactly when there is a meter
RendersAs(str, b, m) ==
    LET head == <<"/">> \o Str_building
        mid == <<"/">> \o Str_elec \o <<"/">> \o Str_meter
    IN /\ StartsWith(str, head)
       /\ \E nb \in 1..(Len(str) - Len(head)) :
             LET rest == SubSeq(str, Len(head) + nb + 1, Len(str))
             IN /\ IsDecimalOf(SubSeq(str, Len(head) + 1, Len(head) + nb), b)
                /\ IF m = None THEN rest = <<>>
                   ELSE StartsWith(rest, mid) /\ IsDecimalOf(After(rest, mid), m[1])

\* C10: a valid Key renders as /building<B>, or as /building<B>/elec/meter<M> when
\* its meter is set, and parsing that string gives a Key with the same building and
\* the same meter.
C10_RenderRoundTrip ==
    /\ rendered.done =>
          /\ rendered.building # None /\ rendered.building[1] >= 1
          /\ RendersAs(rendered.str, rendered.building[1], rendered.meter)
    /\ key.op = "reparse" =>
          /\ key.error = "none"
          /\ key.building = rendered.building
          /\ key.meter = rendered.meter

\* C10 witness: a Key of a two-digit building and a two-digit meter, built without a
\* utility, was rendered and the string parsed back.
C10_Witness ==
    /\ key.op = "reparse"
    /\ rendered.building # None /\ rendered.building[1] >= 10
    /\ rendered.meter # None /\ rendered.meter[1] >= 10
    /\ key.utility = Some(Str_elec)

\* ---- C11: join_key
\* The part of a string between its first and its last character that is not '/'
Core(s) ==
    LET solid == {i \in 1..Len(s) : s[i] # "/"}
    IN IF solid = {} THEN <<>> ELSE SubSeq(s, SetMin(solid), SetMax(solid))

NotEmptyString(s) == s # <<>>

\* The segments that are left of the arguments, in the order given
KeptSegments(args) == SelectSeq([i \in 1..Len(args) |-> Core(Str(args[i]))], NotEmptyString)

RECURSIVE SlashJoined(_)
\* The segments with one '/' between each two
SlashJoined(segs) ==
    IF segs = <<>> THEN <<>>
    ELSE IF Len(segs) = 1 THEN segs[1]
    ELSE segs[1] \o <<"/">> \o SlashJoined(Tail(segs))

\* C11: join_key returns '/' followed by the arguments that are not empty once
\* their leading and trailing slashes are stripped, in the order given, with one
\* '/' between each two and no trailing slash; with no argument, or with every
\* argument empty after stripping, it returns exactly '/'.
C11_JoinKey ==
    joined.op = "join_key" =>
        LET kept == KeptSegments(joined.args)
        IN /\ joined.result = <<"/">> \o SlashJoined(kept)
           /\ kept = <<>> => joined.result = <<"/">>
           /\ kept # <<>> => joined.result[Len(joined.result)] # "/"

\* Three arguments, the middle one only slashes, the outer ones with slashes to
\* strip and one to keep inside
C11_Witness ==
    /\ joined.op = "join_key"
    /\ Len(joined.args) = 3
    /\ ~joined.args[1].int /\ joined.args[1].s = <<"/", "a", "/">>
    /\ ~joined.args[2].int /\ joined.args[2].s = <<"/", "/">>
    /\ joined.args[3].int /\ joined.args[3].n = 10
    /\ joined.result = <<"/", "a", "/", "1", "0">>

\* ---- C19: a period with no row
\* No row of the table lies inside both the window and the period q
NoRowInside(q) ==
    ~\E p \in 1..Len(table) : Inside(window, table[p]) /\ Inside(periods[q], table[p])

\* C19 (as claimed): load() yields at least one chunk for every period; for a
\* period that meets the window but holds no row of the table it yields an empty
\* chunk (zero rows, an empty timeframe, an empty look-ahead).
C19_ChunkForEveryPeriod ==
    \A q \in 1..Len(periods) :
        Finished(q) =>
            /\ ChunksOf(q) # {}
            /\ ~Disjoint(window, periods[q]) /\ NoRowInside(q) =>
                  \E k \in ChunksOf(q) :
                      /\ out[k].rows = <<>>
                      /\ out[k].look_ahead = <<>>
                      /\ out[k].timeframe.empty

\* ---- C18: load() and the memory guard
\* What _check_data_will_fit_in_memory says of a read of n rows of the columns asked
GuardWouldSay(n) == CheckDataWillFitInMemory(stored, col_names, n, bulk.cols).error

C17_FailureEndsLoad ==
    /\ [][pc' = "raised" /\ pc # "raised" => pc \in {"for_period", "for_data"} /\ out' = out]_vars
    /\ [][pc = "raised" => pc' \in {"raised", "idle"} /\ (pc' = "raised" => out' = out)]_vars
    /\ [](pc = "raised" => ~ENABLED Yield /\ ~ENABLED ForPeriod /\ ~ENABLED EndPeriod)

\* A read failed after a chunk had been yielded, with a group still to come
C17_Witness ==
    /\ pc = "raised"
    /\ out # <<>>
    /\ [period |-> pi, op |-> "select_look_ahead"] \in reads
    /\ \E p \in 1..Len(table) : \A k \in 1..Len(out) : \A j \in 1..Len(out[k].rows) :
          out[k].rows[j].pos < p

\* ---- C16: the order of the chunks
\* The chunks of an earlier period come before those of a later one
InPeriodOrder == \A k, l \in 1..Len(out) : k < l => out[k].period <= out[l].period

\* The rows of one period come in index order, within a chunk and from one chunk
\* to the next
InIndexOrder ==
    /\ \A k \in 1..Len(out) : IsSorted([j \in 1..Len(out[k].rows) |-> out[k].rows[j].index])
    /\ \A k, l \in 1..Len(out) :
          k < l /\ out[k].period = out[l].period =>
              \A i \in Indexes(out[k].rows), j \in Indexes(out[l].rows) : i <= j

\* What is left for a load() to do: the periods not taken yet, each worth more
\* than the steps one period can take, and the groups left of the current one
LoadToDo ==
    (Len(periods) - pi) * (Len(table) + 3)
    + (IF pc = "for_data" THEN Len(generator) + 2 ELSE IF pc = "for_period" THEN 1 ELSE 0)

\* C16: load() yields every chunk of a period before any chunk of a later
\* period, and the chunks of one period in index order; the sequence is finite
\* (no more chunks than periods times rows, and every step of the generator
\* leaves less to do); a load() call starts at the first period with nothing
\* yielded, wherever the generator of the call before it was dropped.
C16_PeriodOrder ==
    /\ [](/\ InPeriodOrder
          /\ InIndexOrder
          /\ \A k \in 1..Len(out) : out[k].period \in 1..pi
          /\ Len(out) <= Len(periods) * Max(1, Len(table))
          /\ LoadToDo >= 0)
    /\ [][pc # "idle" /\ pc' # "idle" => LoadToDo' < LoadToDo]_vars
    /\ [][pc = "idle" /\ pc' # "idle" => pc' = "for_period" /\ pi' = 0 /\ out' = <<>>]_vars

\* Two chunks of the first period, then one of the second, and the sequence over
C16_Witness ==
    /\ pc = "done"
    /\ Len(out) = 3
    /\ out[1].period = 1 /\ out[2].period = 1 /\ out[3].period = 2
    /\ out[1].rows[1].index < out[2].rows[1].index

\* ---- C15: open
\* C15: open() closes the pandas store handle instead of reopening it: after any
\* sequence of open() and close() calls that ends in open() the handle is
\* closed, and a handle that is closed stays closed whatever the reader is asked.
C15_OpenCloses ==
    /\ [](calls # <<>> /\ calls[Len(calls)] = "open" => ~is_open)
    /\ [][~is_open => ~is_open']_vars

\* open() on the handle the constructor opened, then close(), then open() again
C15_Witness ==
    /\ calls = <<"open", "close", "open">>
    /\ ~is_open

\* ---- C14: _nrows
\* The number of rows of the table whose index lies in every one of the timeframes
RowsInside(tfs) ==
    Cardinality({p \in 1..Len(table) : \A tf \in tfs : Inside(tf, table[p])})

\* With a timeframe, _nrows returns the number of rows inside it and the window
\* (0 when the two do not meet)
CountWithTimeframe ==
    count.op = "nrows" /\ count.timeframe # None =>
        count.nrows = RowsInside({window, count.timeframe[1]})

\* C14 as stated: with a timeframe, the result is 0 if its intersection with the
\* window is empty and otherwise the number of rows whose index lies in that
\* intersection; with no timeframe, it is the table's total number of rows,
\* whatever the window is.
C14_Original ==
    /\ CountWithTimeframe
    /\ count.op = "nrows" /\ count.timeframe = None => count.nrows = Len(table)

\* C14, amended: with a timeframe as above; with no timeframe, the result is the
\* number of rows whose index lies in the window (0 if the window is empty),
\* which is the table's total number of rows when the window is the whole range.
C14_RowCountWithinWindow ==
    /\ CountWithTimeframe
    /\ count.op = "nrows" /\ count.timeframe = None =>
          /\ count.nrows = RowsInside({window})
          /\ window = Unbounded => count.nrows = Len(table)

\* No timeframe given, and a window that leaves out some rows and keeps some
C14_Witness ==
    /\ count.op = "nrows"
    /\ count.timeframe = None
    /\ count.nrows > 0
    /\ count.nrows < Len(table)

\* ---- C13: _check_columns
\* The names a request may hold: the table's column names and 'index'
ValidNames == SeqToSet(col_names) \cup {"index"}

\* C13: _check_columns returns without any call on the store when columns is
\* None; otherwise it raises KeyError if the key is not in the store or if one of
\* the requested columns is neither a column name of the table nor 'index', and
\* it returns normally exactly when every requested column is one of those.
C13_ValidateColumns ==
    checked.op # "none" =>
        /\ checked.error \in {"none", "KeyError"}
        /\ checked.columns = None => checked.error = "none" /\ checked.store_calls = {}
        /\ checked.columns # None =>
              /\ checked.store_calls # {}
              /\ checked.error = "none" <=>
                    stored /\ SeqToSet(checked.columns[1]) \subseteq ValidNames

\* A request for 'index' and a column of the table returns normally
C13_Witness ==
    /\ checked.op = "check_columns"
    /\ stored
    /\ col_names = <<"a", "b">>
    /\ checked.columns = Some(<<"index", "b">>)
    /\ checked.error = "none"

\* ---- C12: load_metadata
\* What load_metadata(key) returns for the node n
Loaded(n) == DeepValue(heap, attrs[n])

\* The caller changes the dict r, or its nested dict
Mutates(r) == \E v \in Vals : SetItem(r, v) \/ SetNestedItem(r, v)

\* load_metadata keeps returning what it returned, which is what was last attached
StillLoaded ==
    \A n \in Nodes :
        /\ DeepValue(heap', attrs'[n]) = Loaded(n)
        /\ Loaded(n) = disk[n] => DeepValue(heap', attrs'[n]) = disk'[n]

\* C12 as stated: whatever change the caller makes to a dict that load_metadata
\* returned, load_metadata on every key still returns the metadata last attached.
C12_Original == [][(\E r \in returned : Mutates(r)) => StillLoaded]_vars

\* C12, amended: the dict load_metadata returns shares nothing with the node's
\* own metadata, and whatever change the caller makes to a returned dict that it
\* has not passed to save_metadata, load_metadata on every key still returns the
\* metadata last attached by save_metadata, unchanged.
C12_ReturnedCopyIsIndependent ==
    /\ [](\A r \in returned \ saved, n \in Nodes :
             Reachable(heap, {r}) \cap Reachable(heap, {attrs[n]}) = {})
    /\ [][(\E r \in returned \ saved : Mutates(r)) => StillLoaded]_vars

\* A dict that load_metadata returned was changed and is like no node's metadata
\* any more; every node still has what save_metadata, or the file, gave it
C12_Witness ==
    \E r \in (returned \cap mutated) \ saved :
        /\ disk["/building1"] = [val |-> 1, child |-> 1]
        /\ \A n \in Nodes : Loaded(n) = disk[n] /\ DeepValue(heap, r) # Loaded(n)

RestIdle == JoinIdle /\ MetaIdle /\ ColsIdle /\ CountIdle /\ HandleInit /\ BulkIdle

Init == LoadInit /\ MemIdle /\ KeyIdle /\ RestIdle

Next == LoadNext

Spec == Init /\ [][Next]_vars

InitMem == LoadInit /\ byCoords /\ MemInit /\ KeyIdle /\ RestIdle

NextMem == MemNext

SpecMem == InitMem /\ [][NextMem]_vars

InitKey == LoadInit /\ byCoords /\ MemIdle /\ KeyIdle /\ RestIdle

NextKey == KeyNext

SpecKey == InitKey /\ [][NextKey]_vars

InitJoin == LoadInit /\ byCoords /\ MemIdle /\ KeyIdle /\ RestIdle

NextJoin == JoinNext

SpecJoin == InitJoin /\ [][NextJoin]_vars

InitMeta == LoadInit /\ byCoords /\ MemIdle /\ KeyIdle /\ JoinIdle /\ MetaInit /\ ColsIdle /\ CountIdle /\ HandleInit /\ BulkIdle

NextMeta == MetaNext

SpecMeta == InitMeta /\ [][NextMeta]_vars

InitCols == LoadInit /\ byCoords /\ MemInit /\ KeyIdle /\ RestIdle

NextCols == ColsNext

SpecCols == InitCols /\ [][NextCols]_vars

InitCount == LoadInit /\ byCoords /\ MemIdle /\ KeyIdle /\ RestIdle

NextCount == CountNext

SpecCount == InitCount /\ [][NextCount]_vars

InitHandle == LoadInit /\ byCoords /\ MemIdle /\ KeyIdle /\ RestIdle

NextHandle == HandleNext

SpecHandle == InitHandle /\ [][NextHandle]_vars

InitBulk == LoadInit /\ byCoords /\ MemInit /\ stored /\ KeyIdle /\ RestIdle

NextBulk == BulkNext

SpecBulk == InitBulk /\ [][NextBulk]_vars

NextFail == FailNext

SpecFail == Init /\ [][NextFail]_vars

====
